---- MODULE Spec2Model ----
(***************************************************************************)
(* Model of the plan and sub resource clients of stripe-go                 *)
(* (src/plan/client.go, src/sub/client.go) and of the list iterator they   *)
(* wrap.  Request bodies are url.Values, modelled as the sequence of       *)
(* (key, value) pairs in the order of the Add calls, behind a pointer that *)
(* may be nil.  A Go run-time panic (nil dereference, failed type          *)
(* assertion) is the fault flag of a result; it ends the program.          *)
(***************************************************************************)
EXTENDS Integers, Sequences, FiniteSets, TLC

VARIABLES last, crashed, cfg, iter, log, out, res, firstErr

vars == <<last, crashed, cfg, iter, log, out, res, firstErr>>

(* ------------------------------ bounds --------------------------------- *)
MaxItems == 3
MaxPageSize == 2

(* ------------------------- strconv conversions ------------------------- *)
Digit(d) ==
    CASE d = 0 -> "0" [] d = 1 -> "1" [] d = 2 -> "2" [] d = 3 -> "3"
      [] d = 4 -> "4" [] d = 5 -> "5" [] d = 6 -> "6" [] d = 7 -> "7"
      [] d = 8 -> "8" [] d = 9 -> "9"

RECURSIVE FormatUint(_)
FormatUint(n) ==
    IF n < 10 THEN Digit(n) ELSE FormatUint(n \div 10) \o Digit(n % 10)

FormatInt(n) ==
    IF n < 0 THEN "-" \o FormatUint(0 - n) ELSE FormatUint(n)

FormatBool(b) ==
    IF b THEN "true" ELSE "false"

\* strconv.FormatFloat(f, 'f', 2, 64); f is held in hundredths.
FormatFloat(h) ==
    FormatUint(h \div 100) \o "." \o Digit((h \div 10) % 10) \o Digit(h % 10)

(* ------------------------------ url.Values ----------------------------- *)
NilBody == [nil |-> TRUE, kv |-> <<>>]

EmptyBody == [nil |-> FALSE, kv |-> <<>>]

Add(body, k, v) ==
    [body EXCEPT !.kv = Append(@, <<k, v>>)]

Keys(body) ==
    {body.kv[i][1] : i \in DOMAIN body.kv}

ValuesOf(body, k) ==
    SelectSeq(body.kv, LAMBDA p : p[1] = k)

(* ------------------------------ errors --------------------------------- *)
NilErr == "nil"

Errs == {"network", "api"}

Outcomes == Errs \cup {NilErr}

(* ------------------------------ parameters ----------------------------- *)
\* A nil *Params pointer of any params type.
NilParams == [nil |-> TRUE]

NilCard == [nil |-> TRUE, Token |-> "", Number |-> ""]

Cards ==
    {NilCard} \cup
    [nil : {FALSE}, Token : {"", "tok_card"}, Number : {"", "4242"}]

Exps == {<<>>, <<"customer">>}

SubParamsSet ==
    [nil : {FALSE}, Exp : Exps, Customer : {"cus_1"}, Plan : {"", "gold"},
     Token : {"", "tok_1"}, Card : Cards, Coupon : {"", "half"},
     TrialEnd : {0, 12}, Quantity : {0, 2}, FeePercent : {0, 1050},
     NoProrate : BOOLEAN, EndCancel : BOOLEAN]

PlanParamsSet ==
    [nil : {FALSE}, Exp : Exps, ID : {"gold"}, Name : {"", "Gold"},
     Amount : {0, 900}, Currency : {"usd"}, Interval : {"month"},
     IntervalCount : {0, 3}, TrialPeriod : {0, 14},
     Statement : {"", "stmt"}]

Ids == {"id_1"}

\* Params.AppendTo: the common parameters add one value per expansion.
RECURSIVE AppendTo(_, _)
AppendTo(exp, body) ==
    IF exp = <<>> THEN body
    ELSE AppendTo(Tail(exp), Add(body, "expand[]", Head(exp)))

\* CardParams.AppendDetails: the nested card contributes its own fields.
AppendDetails(card, body, creating) ==
    IF creating THEN Add(body, "card[number]", card.Number) ELSE body

(* ------------------------------ Backend -------------------------------- *)
Call(m, p, b, e) ==
    [method |-> m, path |-> p, body |-> b, err |-> e]

Returned(name, p, cs, e) ==
    [op |-> name, params |-> p, calls |-> cs, returned |-> TRUE,
     err |-> e, fault |-> FALSE]

Fault(name, p) ==
    [op |-> name, params |-> p, calls |-> <<>>, returned |-> FALSE,
     err |-> NilErr, fault |-> TRUE]

(* ------------------------ src/sub/client.go ---------------------------- *)
SubPath(params) ==
    <<"customers", params.Customer, "subscriptions">>

SubIdPath(params, id) ==
    <<"customers", params.Customer, "subscriptions", id>>

\* Lines 37-41: the card of a new subscription.
SubNewCard(params, body) ==
    IF params.Token # "" THEN Add(body, "card", params.Token)
    ELSE IF ~params.Card.nil THEN AppendDetails(params.Card, body, TRUE)
    ELSE body

\* Lines 102-110: the card of an updated subscription.
SubUpdateCard(params, body) ==
    IF params.Token # "" THEN Add(body, "card", params.Token)
    ELSE IF ~params.Card.nil
         THEN IF params.Card.Token # ""
              THEN Add(body, "card", params.Card.Token)
              ELSE AppendDetails(params.Card, body, TRUE)
    ELSE body

\* Lines 43-60 and 112-129: the optional fields New and Update share.
\* Variant: the coupon is added without testing that it is set.
SubOptionalAlwaysCoupon(params, body) ==
    LET b1 == Add(body, "coupon", params.Coupon)
        b2 == IF params.TrialEnd > 0
              THEN Add(b1, "trial_end", FormatInt(params.TrialEnd)) ELSE b1
        b3 == IF params.Quantity > 0
              THEN Add(b2, "quantity", FormatUint(params.Quantity)) ELSE b2
        b4 == IF params.FeePercent > 0
              THEN Add(b3, "application_fee_percent",
                       FormatFloat(params.FeePercent))
              ELSE b3
    IN  AppendTo(params.Exp, b4)

SubOptional(params, body) ==
    LET b1 == IF params.Coupon # ""
              THEN Add(body, "coupon", params.Coupon) ELSE body
        b2 == IF params.TrialEnd > 0
              THEN Add(b1, "trial_end", FormatInt(params.TrialEnd)) ELSE b1
        b3 == IF params.Quantity > 0
              THEN Add(b2, "quantity", FormatUint(params.Quantity)) ELSE b2
        b4 == IF params.FeePercent > 0
              THEN Add(b3, "application_fee_percent",
                       FormatFloat(params.FeePercent))
              ELSE b3
    IN  AppendTo(params.Exp, b4)

SubNewBody(params) ==
    SubOptional(params,
                SubNewCard(params, Add(EmptyBody, "plan", params.Plan)))

SubUpdateBody(params) ==
    LET b1 == IF params.Plan # ""
              THEN Add(EmptyBody, "plan", params.Plan) ELSE EmptyBody
        b2 == IF params.NoProrate
              THEN Add(b1, "prorate", FormatBool(FALSE)) ELSE b1
    IN  SubOptional(params, SubUpdateCard(params, b2))

SubCancelBody(params) ==
    AppendTo(params.Exp,
             IF params.EndCancel
             THEN Add(EmptyBody, "at_period_end", FormatBool(TRUE))
             ELSE EmptyBody)

\* A nil params pointer is dereferenced before the call is issued.
SubNew(params, e) ==
    IF params.nil THEN Fault("sub.New", params)
    ELSE Returned("sub.New", params,
                  <<Call("POST", SubPath(params), SubNewBody(params), e)>>, e)

SubGet(id, params, e) ==
    IF params.nil THEN Fault("sub.Get", params)
    ELSE Returned("sub.Get", params,
                  <<Call("GET", SubIdPath(params, id),
                         AppendTo(params.Exp, EmptyBody), e)>>, e)

SubUpdate(id, params, e) ==
    IF params.nil THEN Fault("sub.Update", params)
    ELSE Returned("sub.Update", params,
                  <<Call("POST", SubIdPath(params, id),
                         SubUpdateBody(params), e)>>, e)

SubCancel(id, params, e) ==
    IF params.nil THEN Fault("sub.Cancel", params)
    ELSE Returned("sub.Cancel", params,
                  <<Call("DELETE", SubIdPath(params, id),
                         SubCancelBody(params), e)>>, e)

(* ------------------------ src/plan/client.go --------------------------- *)
PlanNewBody(params) ==
    LET b0 == Add(Add(Add(Add(Add(EmptyBody, "id", params.ID),
                                  "name", params.Name),
                              "amount", FormatUint(params.Amount)),
                          "currency", params.Currency),
                      "interval", params.Interval)
        b1 == IF params.IntervalCount > 0
              THEN Add(b0, "interval_count", FormatUint(params.IntervalCount))
              ELSE b0
        b2 == IF params.TrialPeriod > 0
              THEN Add(b1, "trial_period_days", FormatUint(params.TrialPeriod))
              ELSE b1
        b3 == IF params.Statement # ""
              THEN Add(b2, "statement_description", params.Statement)
              ELSE b2
    IN  AppendTo(params.Exp, b3)

PlanGetBody(params) ==
    IF ~params.nil THEN AppendTo(params.Exp, EmptyBody) ELSE NilBody

PlanUpdateBody(params) ==
    IF ~params.nil
    THEN LET b1 == IF params.Name # ""
                   THEN Add(EmptyBody, "name", params.Name) ELSE EmptyBody
             b2 == IF params.Statement # ""
                   THEN Add(b1, "statement_description", params.Statement)
                   ELSE b1
         IN  AppendTo(params.Exp, b2)
    ELSE NilBody

PlanNew(params, e) ==
    IF params.nil THEN Fault("plan.New", params)
    ELSE Returned("plan.New", params,
                  <<Call("POST", <<"plans">>, PlanNewBody(params), e)>>, e)

PlanGet(id, params, e) ==
    Returned("plan.Get", params,
             <<Call("GET", <<"plans", id>>, PlanGetBody(params), e)>>, e)

PlanUpdate(id, params, e) ==
    Returned("plan.Update", params,
             <<Call("POST", <<"plans", id>>, PlanUpdateBody(params), e)>>, e)

\* Variant: the error of the call is dropped.
PlanDelNoError(id, e) ==
    Returned("plan.Del", NilParams,
             <<Call("DELETE", <<"plans", id>>, NilBody, e)>>, NilErr)

PlanDel(id, e) ==
    Returned("plan.Del", NilParams,
             <<Call("DELETE", <<"plans", id>>, NilBody, e)>>, e)

(* --------------------------- list resources ---------------------------- *)
NilItem == [ID |-> "", type |-> "nil"]

ItemID(i) == "obj_" \o FormatUint(i)

Item(i, type) == [ID |-> ItemID(i), type |-> type]

\* url.Values.Set: the key's values are replaced by the one value.
Set(body, k, v) ==
    [body EXCEPT !.kv = Append(SelectSeq(@, LAMBDA p : p[1] # k), <<k, v>>)]

\* url.Values.Get: the first value of the key, "" when there is none.
First(vs) ==
    IF vs = <<>> THEN "" ELSE vs[1][2]

Get(body, k) ==
    First(ValuesOf(body, k))

ListParamsSet ==
    [nil : {FALSE}, Customer : {"cus_1"}, Limit : 0 .. MaxPageSize]

\* ListParams.AppendTo: the page size limit is sent when it is set.
ListAppendTo(params, body) ==
    IF params.Limit > 0
    THEN Add(body, "limit", FormatUint(params.Limit)) ELSE body

\* The remote list: cfg.N objects, served after the cursor of the request,
\* in pages of the requested limit or of cfg.P when none is requested.
IndexOfID(id) ==
    IF \E i \in 1 .. cfg.N : ItemID(i) = id
    THEN CHOOSE i \in 1 .. cfg.N : ItemID(i) = id
    ELSE 0

ParseLimit(v) ==
    IF \E n \in 1 .. MaxPageSize : FormatUint(n) = v
    THEN CHOOSE n \in 1 .. MaxPageSize : FormatUint(n) = v
    ELSE cfg.P

CursorOf(body) == IndexOfID(Get(body, "starting_after"))

LimitOf(body) == ParseLimit(Get(body, "limit"))

Min(a, b) == IF a < b THEN a ELSE b

PageOf(type, after, limit) ==
    [i \in 1 .. Min(limit, cfg.N - after) |-> Item(after + i, type)]

\* Backend.Call decoding a list: on failure the destination is either
\* untouched or already filled (partial) when the error is returned.
Respond(type, after, limit, e, partial) ==
    IF e = NilErr \/ partial
    THEN [Values |-> PageOf(type, after, limit),
          HasMore |-> after + limit < cfg.N,
          err |-> e]
    ELSE [Values |-> <<>>, HasMore |-> FALSE, err |-> e]

BackendList(type, body, e, partial) ==
    Respond(type, CursorOf(body), LimitOf(body), e, partial)

Fetched(m, p, b, list) ==
    [method |-> m, path |-> p, body |-> b, err |-> list.err,
     Values |-> list.Values, HasMore |-> list.HasMore]

\* Variant: the ListMeta of the decoded list is not returned.
QueryResultNoMeta(path, b, list) ==
    [values |-> [i \in 1 .. Len(list.Values) |-> list.Values[i]],
     meta |-> [HasMore |-> FALSE],
     err |-> list.err,
     call |-> Fetched("GET", path, b, list)]

\* Variant: the copy loop starts one item late.
QueryResultDropItem(path, b, list) ==
    [values |-> [i \in 1 .. Len(list.Values) - 1 |-> list.Values[i + 1]],
     meta |-> [HasMore |-> list.HasMore],
     err |-> list.err,
     call |-> Fetched("GET", path, b, list)]

\* Variant: the error of the call is not returned.
QueryResultNoError(path, b, list) ==
    [values |-> [i \in 1 .. Len(list.Values) |-> list.Values[i]],
     meta |-> [HasMore |-> list.HasMore],
     err |-> NilErr,
     call |-> Fetched("GET", path, b, list)]

\* Lines 144-149 / 172-177: the decoded list is copied item by item and
\* returned with its ListMeta and the error of the call.
QueryResult(path, b, list) ==
    [values |-> [i \in 1 .. Len(list.Values) |-> list.Values[i]],
     meta |-> [HasMore |-> list.HasMore],
     err |-> list.err,
     call |-> Fetched("GET", path, b, list)]

\* Variant: the call is issued with a fresh body instead of b.
PlanListQueryFreshBody(b, e, partial) ==
    QueryResult(<<"plans">>, EmptyBody,
                BackendList("Plan", EmptyBody, e, partial))

\* plan/client.go lines 140-150: the page-fetch closure of plan.List.
PlanListQuery(b, e, partial) ==
    QueryResult(<<"plans">>, b, BackendList("Plan", b, e, partial))

\* sub/client.go lines 168-178: the page-fetch closure of sub.List.
SubListQuery(params, b, e, partial) ==
    QueryResult(SubPath(params), b, BackendList("Sub", b, e, partial))

(* ----------------------------- stripe.Iter ----------------------------- *)
NoIter ==
    [made |-> FALSE, kind |-> "none", params |-> NilParams,
     qs |-> EmptyBody, values |-> <<>>, cur |-> 1, fetched |-> FALSE,
     meta |-> [HasMore |-> FALSE], err |-> NilErr]

\* GetIter(lp, body, query): nil params and a nil body mean server defaults.
GetIter(kind, params, body) ==
    [NoIter EXCEPT !.made = TRUE, !.kind = kind, !.params = params,
                   !.qs = IF body.nil THEN EmptyBody ELSE body]

\* it.query: the closure the iterator was constructed with.
Query(it, b, e, partial) ==
    IF it.kind = "plan" THEN PlanListQuery(b, e, partial)
    ELSE SubListQuery(it.params, b, e, partial)

Result(it, item, err, calls) ==
    [it |-> it, item |-> item, err |-> err, calls |-> calls, fault |-> FALSE]

\* The request of the next page: the last item's identifier is the cursor.
NextQs(it) ==
    IF it.fetched /\ Len(it.values) > 0
    THEN Set(it.qs, "starting_after", it.values[Len(it.values)].ID)
    ELSE it.qs

StorePage(it, qs, q) ==
    [it |-> [it EXCEPT !.qs = qs, !.values = q.values, !.meta = q.meta,
                       !.err = q.err, !.cur = 1, !.fetched = TRUE],
     call |-> q.call]

GetPage(it, e, partial) ==
    StorePage(it, NextQs(it), Query(it, NextQs(it), e, partial))

\* The answer of Next right after a page was fetched.
FirstOf(p) ==
    IF p.it.err # NilErr THEN Result(p.it, NilItem, p.it.err, <<p.call>>)
    ELSE IF Len(p.it.values) = 0
         THEN Result(p.it, NilItem, NilErr, <<p.call>>)
    ELSE Result([p.it EXCEPT !.cur = 2], p.it.values[1], NilErr, <<p.call>>)

IterNext(it, e, partial) ==
    IF it.err # NilErr THEN Result(it, NilItem, it.err, <<>>)
    ELSE IF it.cur <= Len(it.values)
         THEN Result([it EXCEPT !.cur = @ + 1], it.values[it.cur], NilErr, <<>>)
    ELSE IF ~it.fetched \/ it.meta.HasMore
         THEN FirstOf(GetPage(it, e, partial))
    ELSE Result(it, NilItem, NilErr, <<>>)

IterStop(it) ==
    [it |-> it,
     ret |-> it.err # NilErr
             \/ (it.fetched /\ it.cur > Len(it.values) /\ ~it.meta.HasMore)]

IterMeta(it) ==
    [it |-> it, nil |-> ~it.fetched, HasMore |-> it.meta.HasMore]

(* --------------------- typed List, Iter.Next/Stop/Meta ----------------- *)
PlanList(params) ==
    IF ~params.nil
    THEN [it |-> GetIter("plan", params, ListAppendTo(params, EmptyBody)),
          fault |-> FALSE]
    ELSE [it |-> GetIter("plan", NilParams, NilBody), fault |-> FALSE]

SubList(params) ==
    IF params.nil THEN [it |-> NoIter, fault |-> TRUE]
    ELSE [it |-> GetIter("sub", params, ListAppendTo(params, EmptyBody)),
          fault |-> FALSE]

\* Lines 161-165 / 189-193: an error is returned with a nil item;
\* otherwise the item is asserted to be of the resource's type, and the
\* assertion panics on anything else, the nil interface included.
Downcast(r, type) ==
    IF r.err # NilErr THEN [r EXCEPT !.item = NilItem]
    ELSE IF r.item.type = type THEN r
    ELSE [r EXCEPT !.item = NilItem, !.fault = TRUE]

PlanIterNext(i, e, partial) ==
    Downcast(IterNext(i, e, partial), "Plan")

SubIterNext(i, e, partial) ==
    Downcast(IterNext(i, e, partial), "Sub")

\* Variant: Stop peeks by advancing the iterator.
PlanIterStopPeek(i) ==
    [it |-> IterNext(i, NilErr, FALSE).it, ret |-> IterStop(i).ret]

PlanIterStop(i) == IterStop(i)

SubIterStop(i) == IterStop(i)

PlanIterMeta(i) == IterMeta(i)

SubIterMeta(i) == IterMeta(i)

TypedNext(i, e, partial) ==
    IF i.kind = "plan" THEN PlanIterNext(i, e, partial)
    ELSE SubIterNext(i, e, partial)

TypedStop(i) ==
    IF i.kind = "plan" THEN PlanIterStop(i) ELSE SubIterStop(i)

TypedMeta(i) ==
    IF i.kind = "plan" THEN PlanIterMeta(i) ELSE SubIterMeta(i)

(* ------------------------------ state ---------------------------------- *)
\* The answer to the last call on the iterator; late tells that an earlier
\* Next had already returned an error when the call was made.
NoCall ==
    [call |-> "none", item |-> NilItem, err |-> NilErr, stop |-> FALSE,
     metaNil |-> TRUE, hasMore |-> FALSE, fault |-> FALSE, late |-> FALSE]

NoOp ==
    [op |-> "none", params |-> NilParams, calls |-> <<>>,
     returned |-> FALSE, err |-> NilErr, fault |-> FALSE]

Init ==
    /\ last = NoOp
    /\ crashed = FALSE
    /\ cfg = [N |-> 0, P |-> 1]
    /\ iter = NoIter
    /\ log = <<>>
    /\ out = <<>>
    /\ res = NoCall
    /\ firstErr = NilErr

iterVars == <<cfg, iter, log, out, res, firstErr>>

(* ------------------------ client operations ---------------------------- *)
\* The clients hold no state of their own (B and Key are read-only), so a
\* call does not depend on the calls before it: one call per behaviour.
Idle == ~crashed /\ last.op = "none"

Finish(r) ==
    /\ last' = r
    /\ crashed' = r.fault
    /\ UNCHANGED iterVars

DoSubNew ==
    /\ Idle
    /\ \E params \in SubParamsSet \cup {NilParams}, e \in Outcomes :
           Finish(SubNew(params, e))

DoSubGet ==
    /\ Idle
    /\ \E id \in Ids, params \in SubParamsSet \cup {NilParams},
          e \in Outcomes :
           Finish(SubGet(id, params, e))

DoSubUpdate ==
    /\ Idle
    /\ \E id \in Ids, params \in SubParamsSet \cup {NilParams},
          e \in Outcomes :
           Finish(SubUpdate(id, params, e))

DoSubCancel ==
    /\ Idle
    /\ \E id \in Ids, params \in SubParamsSet \cup {NilParams},
          e \in Outcomes :
           Finish(SubCancel(id, params, e))

DoPlanNew ==
    /\ Idle
    /\ \E params \in PlanParamsSet \cup {NilParams}, e \in Outcomes :
           Finish(PlanNew(params, e))

DoPlanGet ==
    /\ Idle
    /\ \E id \in Ids, params \in PlanParamsSet \cup {NilParams},
          e \in Outcomes :
           Finish(PlanGet(id, params, e))

DoPlanUpdate ==
    /\ Idle
    /\ \E id \in Ids, params \in PlanParamsSet \cup {NilParams},
          e \in Outcomes :
           Finish(PlanUpdate(id, params, e))

DoPlanDel ==
    /\ Idle
    /\ \E id \in Ids, e \in Outcomes : Finish(PlanDel(id, e))

(* --------------------------- list iteration ---------------------------- *)
\* List constructs the iterator; the remote list it will page through
\* holds N objects and the server's default page size is P.
Made(l) ==
    /\ iter' = l.it
    /\ crashed' = l.fault
    /\ res' = [NoCall EXCEPT !.call = "List", !.fault = l.fault]
    /\ cfg' \in [N : 0 .. MaxItems, P : 1 .. MaxPageSize]
    /\ UNCHANGED <<last, log, out, firstErr>>

DoPlanList ==
    /\ ~crashed /\ ~iter.made
    /\ \E params \in ListParamsSet \cup {NilParams} : Made(PlanList(params))

DoSubList ==
    /\ ~crashed /\ ~iter.made
    /\ \E params \in ListParamsSet \cup {NilParams} : Made(SubList(params))

Deliver(r) ==
    /\ iter' = r.it
    /\ log' = log \o r.calls
    /\ out' = IF r.item # NilItem THEN Append(out, r.item) ELSE out
    /\ res' = [NoCall EXCEPT !.call = "Next", !.item = r.item,
                             !.err = r.err, !.fault = r.fault,
                             !.late = (firstErr # NilErr)]
    /\ firstErr' = IF firstErr = NilErr THEN r.err ELSE firstErr
    /\ crashed' = r.fault
    /\ UNCHANGED <<last, cfg>>

DoNext ==
    /\ ~crashed
    /\ iter.made
    /\ Len(out) <= MaxItems
    /\ Len(log) <= MaxItems
    /\ \E e \in Outcomes, partial \in BOOLEAN :
           Deliver(TypedNext(iter, e, partial))

Stopped(r) ==
    /\ iter' = r.it
    /\ res' = [NoCall EXCEPT !.call = "Stop", !.stop = r.ret,
                             !.late = (firstErr # NilErr)]
    /\ UNCHANGED <<last, crashed, cfg, log, out, firstErr>>

DoStop ==
    /\ ~crashed
    /\ iter.made
    /\ Stopped(TypedStop(iter))

Described(r) ==
    /\ iter' = r.it
    /\ res' = [NoCall EXCEPT !.call = "Meta", !.metaNil = r.nil,
                             !.hasMore = r.HasMore]
    /\ UNCHANGED <<last, crashed, cfg, log, out, firstErr>>

DoMeta ==
    /\ ~crashed
    /\ iter.made
    /\ Described(TypedMeta(iter))

Next ==
    \/ DoSubNew \/ DoSubGet \/ DoSubUpdate \/ DoSubCancel
    \/ DoPlanNew \/ DoPlanGet \/ DoPlanUpdate \/ DoPlanDel

IterStep ==
    \/ DoPlanList \/ DoSubList \/ DoNext \/ DoStop \/ DoMeta

Spec == Init /\ [][Next]_vars

IterSpec == Init /\ [][IterStep]_vars

(* ------------------------- client operations --------------------------- *)
Sent == last.calls[1].body

ParamOps ==
    {"plan.Get", "plan.Update", "sub.New", "sub.Get", "sub.Update",
     "sub.Cancel"}

\* C4: an operation that takes params, called with nil params, completes
\* without a fault, calls the backend exactly once and sends a body with no
\* keys.
C4_NilParamsEmptyBody ==
    (last.op \in ParamOps /\ last.params.nil)
        => /\ ~last.fault
           /\ last.returned
           /\ Len(last.calls) = 1
           /\ Keys(Sent) = {}

ZeroOptional(p) ==
    /\ p.Token = "" /\ p.Card.nil /\ p.Coupon = "" /\ p.TrialEnd = 0
    /\ p.Quantity = 0 /\ p.FeePercent = 0 /\ ~p.NoProrate /\ p.Exp = <<>>

\* C5: with every optional field at its zero value New sends only the key
\* "plan" and the customer goes in the path; with only Plan set Update sends
\* only the key "plan".
C5_ZeroOptionalOnlyPlan ==
    /\ (last.op = "sub.New" /\ ~last.params.nil /\ ZeroOptional(last.params))
           => /\ Sent.kv = << <<"plan", last.params.Plan>> >>
              /\ last.calls[1].path
                     = <<"customers", last.params.Customer, "subscriptions">>
    /\ (last.op = "sub.Update" /\ ~last.params.nil
            /\ ZeroOptional(last.params) /\ last.params.Plan # "")
           => Sent.kv = << <<"plan", last.params.Plan>> >>

C5_Witness ==
    /\ last.op = "sub.Update" /\ last.returned /\ ~last.params.nil
    /\ ZeroOptional(last.params) /\ last.params.Plan = "gold"
    /\ Keys(Sent) = {"plan"}

TokenSet(p) ==
    p.Token # "" \/ (~p.Card.nil /\ p.Card.Token # "")

TokenOf(p) ==
    IF p.Token # "" THEN p.Token ELSE p.Card.Token

\* C6: with a token set, on params or on the nested card, New and Update
\* send the token as the single value of "card" and no field of the card's
\* details.
C6_TokenNotExpanded ==
    (last.op \in {"sub.New", "sub.Update"} /\ ~last.params.nil
         /\ TokenSet(last.params))
        => /\ ValuesOf(Sent, "card") = << <<"card", TokenOf(last.params)>> >>
           /\ "card[number]" \notin Keys(Sent)

SingleCallOps ==
    {"plan.New", "plan.Get", "plan.Update", "plan.Del",
     "sub.New", "sub.Get", "sub.Update", "sub.Cancel"}

\* C7: the error an operation returns is the error of its single
\* Backend.Call, nil included, and no second call follows a failed one.
C7_ErrorVerbatim ==
    last.op \in SingleCallOps
        => /\ Len(last.calls) <= 1
           /\ last.returned
                  => Len(last.calls) = 1 /\ last.err = last.calls[1].err

C7_Witness ==
    /\ last.op = "plan.Del" /\ last.returned
    /\ Len(last.calls) = 1 /\ last.calls[1].err = "network"
    /\ last.err = "network"

(* ---------------------------- list iteration --------------------------- *)
Failed(l) == \E k \in DOMAIN l : l[k].err # NilErr

\* The items of the pages fetched without error, in fetch order.
RECURSIVE Served(_)
Served(l) ==
    IF l = <<>> THEN <<>>
    ELSE Served(SubSeq(l, 1, Len(l) - 1))
             \o (IF l[Len(l)].err = NilErr THEN l[Len(l)].Values ELSE <<>>)

IsPrefix(a, b) ==
    Len(a) <= Len(b) /\ \A i \in DOMAIN a : a[i] = b[i]

NoRepeat(a) ==
    \A i, j \in DOMAIN a : a[i] = a[j] => i = j

PageSize == LimitOf(iter.qs)

TotalPages ==
    IF cfg.N = 0 THEN 1 ELSE (cfg.N + PageSize - 1) \div PageSize

\* C1: with a fetch function that never fails and serves N items in pages
\* of P, Stop() is true only once N items were returned, is false before
\* the N-th item, and Meta().HasMore is true on every page but the last.
C1_ExactlyNItems ==
    (iter.made /\ ~Failed(log))
        => /\ Len(out) <= cfg.N
           /\ TypedStop(iter).ret => Len(out) = cfg.N
           /\ Len(out) < cfg.N => ~TypedStop(iter).ret
           /\ (res.call = "Stop" /\ res.stop) => Len(out) = cfg.N
           /\ (Len(out) = cfg.N /\ cfg.N > 0) => TypedStop(iter).ret
           /\ iter.fetched
                  => /\ ~TypedMeta(iter).nil
                     /\ TypedMeta(iter).HasMore <=> Len(log) < TotalPages

C1_Witness ==
    /\ iter.made /\ ~Failed(log)
    /\ cfg.N = 3 /\ PageSize = 2 /\ Len(log) = 2
    /\ Len(log[1].Values) = 2 /\ Len(log[2].Values) = 1
    /\ Len(out) = 3
    /\ res.call = "Stop" /\ res.stop

\* C2: when page 1 is fetched and page 2 fails, the items of page 1 are all
\* returned before a Next() returns the error, and Stop() is true from that
\* Next() on.
C2_FirstPageBeforeError ==
    (Len(log) >= 2 /\ log[1].err = NilErr /\ log[2].err # NilErr)
        => /\ firstErr = log[2].err
           /\ out = log[1].Values
           /\ TypedStop(iter).ret
           /\ (res.call = "Stop" /\ res.late) => res.stop

C2_Witness ==
    /\ Len(log) = 2 /\ log[1].err = NilErr /\ log[2].err # NilErr
    /\ Len(out) = 2 /\ firstErr = log[2].err
    /\ res.call = "Stop" /\ res.late /\ res.stop

\* C3: once a page fetch has failed, every Next() returns that error and no
\* item, the items of the failed fetch included, and no page is fetched
\* again.
C3_TerminalAfterError ==
    [][(res'.call = "Next" /\ Failed(log'))
           => /\ res'.err = log'[Len(log')].err
              /\ res'.item = NilItem
              /\ ~res'.fault
              /\ out' = out
              /\ Failed(log) => log' = log]_vars

C3_Witness ==
    /\ Failed(log) /\ log[Len(log)].Values # <<>>
    /\ res.call = "Next" /\ res.late
    /\ res.err = log[Len(log)].err /\ res.item = NilItem

\* C8: a page after the first is fetched only by a Next() that finds the
\* buffer exhausted and HasMore true; the request carries the identifier of
\* the last item returned as its cursor, and Next() returns the first item
\* of the page it fetched.
C8_FetchOnExhaustion ==
    [][(Len(log') > Len(log) /\ Len(log) >= 1)
           => /\ res'.call = "Next"
              /\ Len(log') = Len(log) + 1
              /\ out = Served(log)
              /\ out # <<>>
              /\ TypedMeta(iter).HasMore
              /\ Get(log'[Len(log')].body, "starting_after")
                     = out[Len(out)].ID
              /\ (log'[Len(log')].err = NilErr
                      /\ log'[Len(log')].Values # <<>>)
                     => /\ res'.item = log'[Len(log')].Values[1]
                        /\ out' = Append(out, res'.item)]_vars

C8_Witness ==
    /\ Len(log) = 2 /\ log[2].err = NilErr /\ log[2].Values # <<>>
    /\ Len(log[1].Values) = 2
    /\ Get(log[2].body, "starting_after") = log[1].Values[2].ID
    /\ res.call = "Next" /\ res.item = log[2].Values[1]

\* C9: at the end of the sequence Next() of the typed iterators returns no
\* item and a nil error, and does not fault.
C9_EndOfSequenceNoFault ==
    (res.call = "Next" /\ ~Failed(log) /\ iter.fetched
         /\ ~TypedMeta(iter).HasMore /\ res.item = NilItem)
        => res.err = NilErr /\ ~res.fault

\* C10: the items Next() returns are the items of the fetched pages, in
\* fetch order and page order, each once; Stop() and Meta() leave the
\* position alone, and nothing already returned is returned again.
C10_ForwardOnly ==
    [][/\ IsPrefix(out', Served(log'))
       /\ NoRepeat(out')
       /\ IsPrefix(out, out')
       /\ IsPrefix(log, log')
       /\ out' # out => res'.call = "Next" /\ out' = Append(out, res'.item)
       /\ res'.call \in {"Stop", "Meta"}
              => iter' = iter /\ out' = out /\ log' = log
       /\ (~Failed(log') /\ TypedStop(iter').ret) => out' = Served(log')]_vars

C10_Witness ==
    /\ Len(log) = 2 /\ ~Failed(log) /\ Len(out) = 3
    /\ out = Served(log)
    /\ res.call = "Meta" /\ ~res.hasMore

====
